---- MODULE Spec2Model ----
(***************************************************************************)
(* Model of app.py: the company directory lookup (safe_convert_to_int,     *)
(* search_company_data), the two generation stages and the orchestrator    *)
(* generate_enhanced_two_stage_prep_sheet, and main's display of the       *)
(* result.                                                                 *)
(*                                                                         *)
(* Python strings are sequences: names and numeric cells are sequences of  *)
(* characters, report texts and error messages are sequences of words.     *)
(* A Python call either returns a value or raises; both outcomes are       *)
(* records with a "raised" field.  The Streamlit placeholders              *)
(* (progress_placeholder, status_placeholder) are taken not to raise; the  *)
(* two OpenAI services may return any response or raise.                   *)
(***************************************************************************)
EXTENDS Integers, Sequences, FiniteSets, TLC

VARIABLES
    value,          \* SpecConv: the source cell handed to safe_convert_to_int
    converted,      \* SpecConv: outcome of safe_convert_to_int(value)
    df,             \* the loaded dataset: a sequence of rows
    company_name,   \* the submitted name
    found,          \* outcome of search_company_data(df, company_name)
    pc,             \* position of the pipeline run
    company_data,   \* the record handed to the orchestrator
    s1_outcome,     \* behaviour of the research service in this run
    s2_outcome,     \* behaviour of the enhancement service in this run
    prep_prompt,    \* value returned by create_comprehensive_prep_prompt
    gpt4o_prep_sheet,     \* value returned by stage1_gpt4o_prep_sheet
    enhanced_prep_sheet,  \* value returned by the orchestrator
    progress,       \* sequence of values passed to progress_placeholder.progress (tenths)
    s1_calls,       \* number of invocations of stage1_gpt4o_prep_sheet
    s2_calls,       \* number of invocations of stage2_o1_enhancement
    display         \* what main renders: "none", "success" or "error"

vars == <<value, converted, df, company_name, found, pc, company_data,
          prep_prompt, s1_outcome, s2_outcome, gpt4o_prep_sheet, enhanced_prep_sheet,
          progress, s1_calls, s2_calls, display>>

(***************************************************************************)
(* Bounds                                                                  *)
(***************************************************************************)
\* longest numeric cell text, in characters
MaxCellLen == 3
\* longest organization name / submitted name, in characters
MaxNameLen == 2
\* number of rows of the dataset
MaxRows == 2

(***************************************************************************)
(* Generic sequence helpers                                                *)
(***************************************************************************)
SeqsUpTo(S, n) == UNION {[1..k -> S] : k \in 0..n}

\* Python: sub in s (contiguous substring)
Contains(s, sub) ==
    \E i \in 0..(Len(s) - Len(sub)) :
        \A j \in 1..Len(sub) : s[i + j] = sub[j]

\* Python: s.startswith(p)
StartsWith(s, p) ==
    /\ Len(p) <= Len(s)
    /\ \A j \in 1..Len(p) : s[j] = p[j]

\* a value that has not been computed yet
NotYet == [raised |-> FALSE, done |-> FALSE]

(***************************************************************************)
(* safe_convert_to_int                                                     *)
(***************************************************************************)
Digits == {"1", "9"}
DigitVal(c) == IF c = "1" THEN 1 ELSE 9
\* characters of a cell text; "nan", "NaN" and "inf" stand for those words
CellChars == {"1", "9", ",", " ", ".", "-", "x", "nan", "NaN", "inf"}

\* cell values as pandas hands them over
PyNone      == [k |-> "none",  n |-> 0, s |-> <<>>]
FloatNaN    == [k |-> "nan",   n |-> 0, s |-> <<>>]
FloatInf    == [k |-> "inf",   n |-> 0, s |-> <<>>]
PyInt(n)    == [k |-> "int",   n |-> n, s |-> <<>>]
\* a finite float, kept in tenths
PyFloat(t)  == [k |-> "float", n |-> t, s |-> <<>>]
CellStr(s)  == [k |-> "str",   n |-> 0, s |-> s]

\* str.replace(',', '')
RECURSIVE RemoveCommas(_)
RemoveCommas(s) ==
    IF s = <<>> THEN <<>>
    ELSE IF Head(s) = "," THEN RemoveCommas(Tail(s))
         ELSE <<Head(s)>> \o RemoveCommas(Tail(s))

\* str.strip()
RECURSIVE LStrip(_)
LStrip(s) == IF s # <<>> /\ Head(s) = " " THEN LStrip(Tail(s)) ELSE s
RECURSIVE RStrip(_)
RStrip(s) ==
    IF s # <<>> /\ s[Len(s)] = " " THEN RStrip(SubSeq(s, 1, Len(s) - 1)) ELSE s
Strip(s) == LStrip(RStrip(s))

\* str.lower() on a cell text
LowerCell(s) == [i \in 1..Len(s) |-> IF s[i] = "NaN" THEN "nan" ELSE s[i]]

\* value of a digit string
RECURSIVE DecimalValue(_)
DecimalValue(s) ==
    IF s = <<>> THEN 0
    ELSE 10 * DecimalValue(SubSeq(s, 1, Len(s) - 1)) + DigitVal(s[Len(s)])

AllDigits(s) == \A i \in 1..Len(s) : s[i] \in Digits

\* float(text): "err" is ValueError; otherwise nan, inf or a finite number
\* given by its sign and the integer part of its magnitude
ParseFloat(s0) ==
    LET s    == Strip(s0)
        neg  == s # <<>> /\ Head(s) = "-"
        body == IF neg THEN Tail(s) ELSE s
        dots == {i \in 1..Len(body) : body[i] = "."}
        dot  == IF dots = {} THEN Len(body) + 1 ELSE CHOOSE i \in dots : TRUE
        ip   == SubSeq(body, 1, dot - 1)
        fp   == SubSeq(body, dot + 1, Len(body))
    IN  IF LowerCell(body) = <<"nan">> THEN [k |-> "nan", neg |-> neg, ip |-> 0]
        ELSE IF body = <<"inf">> THEN [k |-> "inf", neg |-> neg, ip |-> 0]
        ELSE IF /\ Cardinality(dots) <= 1
                /\ AllDigits(ip) /\ AllDigits(fp)
                /\ Len(ip) + Len(fp) >= 1
             THEN [k |-> "num", neg |-> neg, ip |-> DecimalValue(ip)]
             ELSE [k |-> "err", neg |-> neg, ip |-> 0]

Returned(v) == [raised |-> FALSE, done |-> TRUE, v |-> v, exc |-> "none"]
Raised(e)   == [raised |-> TRUE,  done |-> TRUE, v |-> 0, exc |-> e]

\* the except clause of safe_convert_to_int: the exceptions it turns into default
ConvertCaught == {"ValueError", "TypeError"}

\* int(float(value)) for a text
IntOfFloatOfText(s) ==
    LET f == ParseFloat(s)
    IN  CASE f.k = "err" -> Raised("ValueError")
          [] f.k = "nan" -> Raised("ValueError")
          [] f.k = "inf" -> Raised("OverflowError")
          [] OTHER       -> Returned(IF f.neg THEN 0 - f.ip ELSE f.ip)

\* integer truncation toward zero of a float kept in tenths
TruncTenths(t) == IF t >= 0 THEN t \div 10 ELSE 0 - ((0 - t) \div 10)

\* the body of the try block
ConvertBody(v, default) ==
    CASE v.k \in {"none", "nan"} -> Returned(default)
      [] v.k = "inf"   -> Raised("OverflowError")
      [] v.k = "int"   -> Returned(v.n)
      [] v.k = "float" -> Returned(TruncTenths(v.n))
      [] OTHER ->
            LET t == Strip(RemoveCommas(v.s))
            IN  IF t = <<>> \/ LowerCell(t) = <<"nan">>
                THEN Returned(default)
                ELSE IntOfFloatOfText(t)

safe_convert_to_int(v, default) ==
    LET r == ConvertBody(v, default)
    IN  IF r.raised /\ r.exc \in ConvertCaught THEN Returned(default) ELSE r

(***************************************************************************)
(* search_company_data                                                     *)
(***************************************************************************)
\* characters of a name; "." and "(" are ordinary characters of a name and
\* metacharacters of a regular expression
NameChars == {"a", "A", ".", "("}
LowerChar(c) == IF c = "A" THEN "a" ELSE c
\* str.lower()
Lower(s) == [i \in 1..Len(s) |-> LowerChar(s[i])]

\* a cell of the 'Organization Name' / 'Website' column: a text or NaN
TextCell(s) == [isna |-> FALSE, s |-> s]
NaNCell     == [isna |-> TRUE,  s |-> <<>>]

\* Series.str.lower() == company_name.lower(), row by row (NaN compares unequal)
ExactMask(data, name) ==
    {i \in 1..Len(data) :
        /\ ~data[i].name.isna
        /\ Lower(data[i].name.s) = Lower(name)}

\* re.compile(pat): fails on an unterminated group
RegexCompiles(pat) == \A i \in 1..Len(pat) : pat[i] # "("

\* one pattern character against one subject character
RegexCharMatches(p, c) == p = "." \/ p = c

\* regex.search(text) for a compiled pattern of literals and "."
RegexSearch(pat, text) ==
    \E i \in 0..(Len(text) - Len(pat)) :
        \A j \in 1..Len(pat) : RegexCharMatches(pat[j], text[i + j])

\* Series.str.lower().str.contains(company_name.lower(), na=False)
PartialMask(data, name) ==
    {i \in 1..Len(data) :
        /\ ~data[i].name.isna
        /\ RegexSearch(Lower(name), Lower(data[i].name.s))}

\* str.replace(' ', '')
RECURSIVE RemoveSpaces(_)
RemoveSpaces(s) ==
    IF s = <<>> THEN <<>>
    ELSE IF Head(s) = " " THEN RemoveSpaces(Tail(s))
         ELSE <<Head(s)>> \o RemoveSpaces(Tail(s))

\* f"https://www.{company_name.lower().replace(' ', '')}.com"
GuessedWebsite(name) == <<"https://www.">> \o RemoveSpaces(Lower(name)) \o <<".com">>

\* DataFrame.iloc[0] of a filtered frame: the first selected row
FirstRow(mask) == CHOOSE i \in mask : \A j \in mask : i <= j

\* the record built from a matching row
RowRecord(row, name, match_type) ==
    LET visits    == safe_convert_to_int(row.visits, 0)
        downloads == safe_convert_to_int(row.downloads, 0)
    IN  IF visits.raised THEN visits
        ELSE IF downloads.raised THEN downloads
        ELSE Returned([company_name   |-> row.name.s,
                       website        |-> IF ~row.website.isna THEN row.website.s
                                          ELSE GuessedWebsite(name),
                       monthly_visits |-> visits.v,
                       app_downloads  |-> downloads.v,
                       match_type     |-> match_type])

\* the record for a name that matches no row
NoMatchRecord(name) ==
    [company_name   |-> name,
     website        |-> GuessedWebsite(name),
     monthly_visits |-> 0,
     app_downloads  |-> 0,
     match_type     |-> "none"]

search_company_data(data, name) ==
    IF ExactMask(data, name) # {}
    THEN RowRecord(data[FirstRow(ExactMask(data, name))], name, "exact")
    ELSE IF ~RegexCompiles(Lower(name)) THEN Raised("re.error")
    ELSE IF PartialMask(data, name) # {}
    THEN RowRecord(data[FirstRow(PartialMask(data, name))], name, "partial")
    ELSE Returned(NoMatchRecord(name))

(***************************************************************************)
(* Inputs                                                                  *)
(***************************************************************************)
\* numeric cells as read from the spreadsheet
SourceValues ==
    {PyNone, FloatNaN, FloatInf}
    \cup {PyInt(n) : n \in {0, 7, 1234}}
    \cup {PyFloat(t) : t \in {429, 0 - 37}}
    \cup {CellStr(s) : s \in SeqsUpTo(CellChars, MaxCellLen)}

Names == SeqsUpTo(NameChars, MaxNameLen) \ {<<>>}

\* the non-name cells of a row: visits, downloads, website
RowCells ==
    { [visits |-> CellStr(<<"1", ",", "9">>), downloads |-> FloatNaN,
       website |-> TextCell(<<"https://a.com">>)],
      [visits |-> PyInt(7), downloads |-> CellStr(<<"9", ".", "9">>),
       website |-> NaNCell],
      [visits |-> CellStr(<<"inf">>), downloads |-> PyInt(1),
       website |-> NaNCell] }

Rows ==
    { [name |-> n, visits |-> c.visits, downloads |-> c.downloads,
       website |-> c.website] :
        n \in {TextCell(s) : s \in Names} \cup {NaNCell}, c \in RowCells }

Datasets == UNION {[1..k -> Rows] : k \in 1..MaxRows}

(***************************************************************************)
(* Idle values of the variables a specification does not use               *)
(***************************************************************************)
IdleConv == /\ value = PyNone
            /\ converted = NotYet
IdleDir  == /\ df = <<>>
            /\ company_name = <<>>
            /\ found = NotYet
IdleRun  == /\ pc = "Idle"
            /\ company_data = NotYet
            /\ prep_prompt = NotYet
            /\ s1_outcome = NotYet
            /\ s2_outcome = NotYet
            /\ gpt4o_prep_sheet = NotYet
            /\ enhanced_prep_sheet = NotYet
            /\ progress = <<>>
            /\ s1_calls = 0
            /\ s2_calls = 0
            /\ display = "none"

convVars == <<value, converted>>
dirVars  == <<df, company_name, found>>
runVars  == <<pc, company_data, prep_prompt, s1_outcome, s2_outcome, gpt4o_prep_sheet,
              enhanced_prep_sheet, progress, s1_calls, s2_calls, display>>

(***************************************************************************)
(* SpecConv: safe_convert_to_int applied to every source value             *)
(***************************************************************************)
InitConv ==
    /\ value \in SourceValues
    /\ converted = NotYet
    /\ IdleDir
    /\ IdleRun

Convert ==
    /\ ~converted.done
    /\ converted' = safe_convert_to_int(value, 0)
    /\ UNCHANGED <<value, dirVars, runVars>>

NextConv == Convert
SpecConv == InitConv /\ [][NextConv]_vars

(***************************************************************************)
(* SpecDir: search_company_data applied to every dataset and name          *)
(***************************************************************************)
InitDir ==
    /\ df \in Datasets
    /\ company_name \in Names
    /\ found = NotYet
    /\ IdleConv
    /\ IdleRun

Search ==
    /\ ~found.done
    /\ found' = search_company_data(df, company_name)
    /\ UNCHANGED <<df, company_name, convVars, runVars>>

NextDir == Search
SpecDir == InitDir /\ [][NextDir]_vars

(***************************************************************************)
(* Texts of the pipeline: sequences of words                               *)
(***************************************************************************)
\* longest report text returned by a service, in words
MaxReportLen == 2
\* longest error message of a failed service call, in words
MaxErrLen == 1

\* a Python value that is a str or None
PyText(t) == [none |-> FALSE, t |-> t]
TextNone  == [none |-> TRUE,  t |-> <<>>]

\* outcome of a call that yields a text value, or raises with a message
Ret(v)     == [raised |-> FALSE, done |-> TRUE, v |-> v, msg |-> <<>>]
Fault(msg) == [raised |-> TRUE,  done |-> TRUE, v |-> TextNone, msg |-> msg]

\* "GPT-4o prep sheet generation failed"
S1FailMarker == <<"GPT-4o prep sheet generation", "failed">>
\* "o1-preview enhancement failed"
S2FailMarker == <<"o1-preview enhancement", "failed">>
\* "\n\nOriginal GPT-4o prep sheet:\n"
OriginalHeader == <<"Original GPT-4o prep sheet:">>
\* "Error in process"
ProcessErrorMarker == <<"Error", "in process">>

\* words a service may put in a report
ReportWords == {"w", "failed", "Error", "GPT-4o prep sheet generation"}
ReportTexts == SeqsUpTo(ReportWords, MaxReportLen)
ErrorTexts  == SeqsUpTo({"timeout", "failed"}, MaxErrLen)

(***************************************************************************)
(* stage1_gpt4o_prep_sheet                                                 *)
(***************************************************************************)
\* content items and output items of a responses.create response
OutputText(v) == [type |-> "output_text", has_text |-> TRUE, text |-> v]
NoTextItem    == [type |-> "output_text", has_text |-> FALSE, text |-> TextNone]
Refusal       == [type |-> "refusal", has_text |-> FALSE, text |-> TextNone]
Message(c)    == [type |-> "message", content |-> c]
WebSearchCall == [type |-> "web_search_call", content |-> <<>>]

\* behaviours of client.responses.create
S1Raise(e) == [done |-> TRUE, kind |-> "raise", err |-> e, output |-> <<>>,
               has_output_text |-> FALSE, output_text |-> <<>>]
S1Response(out, has, txt) ==
    [done |-> TRUE, kind |-> "response", err |-> <<>>, output |-> out,
     has_output_text |-> has, output_text |-> txt]

\* str(response) of a response object
ResponseRepr == <<"Response(...)">>

\* positions (item, content item) the extraction loop returns at
TextPositions(out) ==
    {p \in UNION {{<<i, j>> : j \in 1..Len(out[i].content)} : i \in 1..Len(out)} :
        /\ out[p[1]].type = "message"
        /\ out[p[1]].content[p[2]].type = "output_text"}

FirstPosition(ps) ==
    CHOOSE p \in ps : \A q \in ps : p[1] < q[1] \/ (p[1] = q[1] /\ p[2] <= q[2])

\* lines 227-235: the text of the first output_text item of the first message
\* that has one, else output_text, else str(response)
ExtractPrepSheet(r) ==
    IF TextPositions(r.output) # {}
    THEN LET p  == FirstPosition(TextPositions(r.output))
             ci == r.output[p[1]].content[p[2]]
         IN  IF ci.has_text THEN Ret(ci.text)
             ELSE Fault(<<"object has no attribute 'text'">>)
    ELSE IF r.has_output_text THEN Ret(PyText(r.output_text))
    ELSE Ret(PyText(ResponseRepr))

\* f"GPT-4o prep sheet generation failed: {str(e)}"
Stage1FailureText(e) == S1FailMarker \o <<":">> \o e

\* progress values (tenths) stage 1 emits, in order
Stage1Progress(o) ==
    IF o.kind = "raise" THEN <<3, 6>>
    ELSE IF ExtractPrepSheet(o).raised THEN <<3, 6, 6>>
    ELSE <<3, 6>>

\* the value stage 1 returns: its except clause turns every fault into text
stage1_gpt4o_prep_sheet(o) ==
    IF o.kind = "raise" THEN Ret(PyText(Stage1FailureText(o.err)))
    ELSE LET x == ExtractPrepSheet(o)
         IN  IF x.raised THEN Ret(PyText(Stage1FailureText(x.msg))) ELSE x

\* the research stage failed: the call raised, or processing its response did
Stage1Raised(o) == o.kind = "raise" \/ ExtractPrepSheet(o).raised

(***************************************************************************)
(* stage2_o1_enhancement                                                   *)
(***************************************************************************)
\* behaviours of client.chat.completions.create
S2Raise(e)    == [done |-> TRUE, kind |-> "raise", err |-> e, choices |-> <<>>]
S2Response(c) == [done |-> TRUE, kind |-> "response", err |-> <<>>, choices |-> c]

\* response.choices[0].message.content
FirstChoiceContent(r) ==
    IF Len(r.choices) = 0 THEN Fault(<<"list index out of range">>)
    ELSE Ret(r.choices[1])

\* the try block of stage 2
Stage2Try(o) == IF o.kind = "raise" THEN Fault(o.err) ELSE FirstChoiceContent(o)

\* f"o1-preview enhancement failed: {e}\n\nOriginal GPT-4o prep sheet:\n{sheet}"
Stage2ReportFirst(e, sheet) == sheet \o S2FailMarker \o <<":">> \o e
Stage2NoReport(e, sheet) == S2FailMarker \o <<":">> \o e
Stage2FallbackText(e, sheet) ==
    S2FailMarker \o <<":">> \o e \o OriginalHeader \o sheet

\* progress values (tenths) stage 2 emits, in order
Stage2Backwards(o) == <<8, 5>>
Stage2Progress(o) ==
    IF o.kind = "raise" THEN <<8, 10>>
    ELSE IF Stage2Try(o).raised THEN <<8, 10, 10>>
    ELSE <<8, 10>>

\* the value stage 2 returns: its except clause turns every fault into text
Stage2Propagates(sheet, o) == Stage2Try(o)
stage2_o1_enhancement(sheet, o) ==
    LET x == Stage2Try(o)
    IN  IF x.raised THEN Ret(PyText(Stage2FallbackText(x.msg, sheet))) ELSE x

(***************************************************************************)
(* extract_domain and create_comprehensive_prep_prompt                     *)
(***************************************************************************)
\* urlparse(str(url)).netloc.replace('www.', ''), or str(url) without a netloc
extract_domain(url) ==
    IF url # <<>> /\ Head(url) = "https://www." THEN Tail(url)
    ELSE IF url # <<>> /\ Head(url) = "https://a.com" THEN <<"a.com">> \o Tail(url)
    ELSE url

DigitChars == <<"0", "1", "2", "3", "4", "5", "6", "7", "8", "9">>

\* the decimal digits of a natural number
RECURSIVE DecimalDigits(_)
DecimalDigits(n) ==
    IF n < 10 THEN <<DigitChars[n + 1]>>
    ELSE DecimalDigits(n \div 10) \o <<DigitChars[(n % 10) + 1]>>

\* a group of three digits, zero padded
ThreeDigits(n) ==
    <<DigitChars[(n \div 100) + 1], DigitChars[((n \div 10) % 10) + 1],
      DigitChars[(n % 10) + 1]>>

\* f"{n:,}" for a natural number
RECURSIVE GroupThousands(_)
GroupThousands(n) ==
    IF n < 1000 THEN DecimalDigits(n)
    ELSE GroupThousands(n \div 1000) \o <<",">> \o ThreeDigits(n % 1000)

\* f"{n:,}"
FormatThousands(n) ==
    IF n < 0 THEN <<"-">> \o GroupThousands(0 - n) ELSE GroupThousands(n)

\* lines 126-127: the figure, or "Data not available" for a figure that is not positive
DisplayAlways(n) == FormatThousands(n)
FigureDisplay(n) ==
    IF n > 0 THEN FormatThousands(n) ELSE <<"Data not available">>

\* the lines of the prompt
NoInternalDataNote ==
    <<"**Note:** No internal data available for this company. Please research and find accurate traffic and app download data during your analysis.">>
VerifiedHeader(match_note) == <<"**Verified Internal Data (", match_note, "):**">>
VisitsLabel    == <<"- Monthly Website Visits:">>
DownloadsLabel == <<"- App Downloads (Last 30 Days):">>

\* lines 116-133
DataNote(cd) ==
    IF cd.match_type = "none"
    THEN NoInternalDataNote
         \o <<"**Research Target:**", "- Company:">> \o cd.company_name
         \o <<"- Estimated Website:">> \o cd.website
         \o <<"(please verify correct URL)">>
    ELSE VerifiedHeader(IF cd.match_type = "exact" THEN "Exact match"
                        ELSE "Partial match")
         \o VisitsLabel \o FigureDisplay(cd.monthly_visits)
         \o DownloadsLabel \o FigureDisplay(cd.app_downloads)

\* lines 135-200
create_comprehensive_prep_prompt(cd) ==
    <<"You are an expert AI sales research analyst. ... ## Output Format:",
      "# Prep Sheet -">> \o cd.company_name
    \o <<"## 1. Fast Facts ... - **Digital Footprint:** [monthly visits] monthly visits / [app downloads] app downloads",
         IF cd.match_type # "none" THEN "(verified from internal data)"
         ELSE "(researched data)",
         "## 2. Tech Stack ... ## Scoring Methodology: ... ## Research Quality Standards: ...",
         "**Company:**">> \o cd.company_name
    \o <<"**Website:**">> \o cd.website
    \o <<"**Domain:**">> \o extract_domain(cd.website)
    \o DataNote(cd)
    \o <<"Research this company thoroughly using web search and generate a detailed preparation sheet. ...">>

\* figures and names of the records the prompt is built from
FigureValues == {0 - 19, 0, 7, 999, 1000, 1234567}
PromptNames  == {<<"a">>, <<"A", ".">>, <<"(", "a">>}

\* records search_company_data can return
CompanyRecords ==
    { [company_name |-> n, website |-> w, monthly_visits |-> v,
       app_downloads |-> d, match_type |-> m] :
        n \in PromptNames, w \in {<<"https://a.com">>},
        v \in FigureValues, d \in FigureValues, m \in {"exact", "partial"} }
    \cup { [company_name |-> n, website |-> GuessedWebsite(n),
            monthly_visits |-> v, app_downloads |-> 0, match_type |-> "exact"] :
        n \in PromptNames, v \in FigureValues }
    \cup { NoMatchRecord(n) : n \in PromptNames }

(***************************************************************************)
(* SpecPrompt: create_comprehensive_prep_prompt applied to every record    *)
(***************************************************************************)
InitPrompt ==
    /\ IdleConv
    /\ IdleDir
    /\ pc = "Idle"
    /\ company_data \in {Returned(r) : r \in CompanyRecords}
    /\ prep_prompt = NotYet
    /\ s1_outcome = NotYet
    /\ s2_outcome = NotYet
    /\ gpt4o_prep_sheet = NotYet
    /\ enhanced_prep_sheet = NotYet
    /\ progress = <<>>
    /\ s1_calls = 0
    /\ s2_calls = 0
    /\ display = "none"

BuildPrompt ==
    /\ ~prep_prompt.done
    /\ prep_prompt' = Returned(create_comprehensive_prep_prompt(company_data.v))
    /\ UNCHANGED <<convVars, dirVars, pc, company_data, s1_outcome, s2_outcome,
                   gpt4o_prep_sheet, enhanced_prep_sheet, progress, s1_calls,
                   s2_calls, display>>

NextPrompt == BuildPrompt
SpecPrompt == InitPrompt /\ [][NextPrompt]_vars

(***************************************************************************)
(* generate_enhanced_two_stage_prep_sheet and main                         *)
(***************************************************************************)
\* line 343: gpt4o_prep_sheet.startswith("GPT-4o prep sheet generation failed")
NeverStage1Failure(sheet) == Ret(FALSE)
IsStage1Failure(sheet) ==
    IF sheet.none THEN Fault(<<"'NoneType' object has no attribute 'startswith'">>)
    ELSE Ret(StartsWith(sheet.t, S1FailMarker))

\* f"Error in process: {str(e)}"
ProcessErrorText(e) == ProcessErrorMarker \o <<":">> \o e

\* main, line 463: enhanced_prep_sheet and not any(t in enhanced_prep_sheet ...)
IsSuccessDocument(result) ==
    /\ ~result.none
    /\ result.t # <<>>
    /\ ~Contains(result.t, <<"failed">>)
    /\ ~Contains(result.t, <<"Error">>)

\* behaviours of the two services
S1Outcomes ==
    {S1Raise(e) : e \in ErrorTexts}
    \cup {S1Response(<<WebSearchCall, Message(<<Refusal, OutputText(PyText(t))>>)>>,
                     TRUE, t) : t \in ReportTexts}
    \cup {S1Response(<<Message(<<>>), Message(<<OutputText(PyText(t))>>),
                       Message(<<OutputText(PyText(<<"w">>))>>)>>,
                     TRUE, <<"w">>) : t \in ReportTexts}
    \cup {S1Response(<<Message(<<OutputText(TextNone)>>)>>, TRUE, <<>>),
          S1Response(<<Message(<<NoTextItem>>)>>, TRUE, <<>>),
          S1Response(<<WebSearchCall>>, FALSE, <<>>)}
    \cup {S1Response(<<WebSearchCall>>, TRUE, t) : t \in ReportTexts}

S2Outcomes ==
    {S2Raise(e) : e \in ErrorTexts}
    \cup {S2Response(<<>>), S2Response(<<TextNone>>)}
    \cup {S2Response(<<PyText(t)>>) : t \in ReportTexts}
    \cup {S2Response(<<PyText(t), PyText(<<"w">>)>>) : t \in ReportTexts}

\* the dataset of a run, and the names a user submits
DirectoryData ==
    << [name |-> TextCell(<<"a", ".">>), visits |-> CellStr(<<"1", ",", "9">>),
        downloads |-> FloatNaN, website |-> TextCell(<<"https://a.com">>)],
       [name |-> TextCell(<<"A">>), visits |-> PyInt(7),
        downloads |-> CellStr(<<"9", ".", "9">>), website |-> NaNCell] >>
SubmittedNames == {<<"a">>, <<"A", ".">>, <<".">>, <<"(">>, <<"a", "a">>}

InitRun ==
    /\ IdleConv
    /\ df = DirectoryData
    /\ company_name = <<>>
    /\ found = NotYet
    /\ IdleRun

\* main, line 413: a name is submitted
Submit ==
    /\ pc = "Idle"
    /\ \E n \in SubmittedNames : company_name' = n
    /\ pc' = "Resolving"
    /\ UNCHANGED <<prep_prompt, convVars, df, found, company_data, s1_outcome, s2_outcome,
                   gpt4o_prep_sheet, enhanced_prep_sheet, progress, s1_calls,
                   s2_calls, display>>

\* main, line 416: search_company_data; an exception ends the script run
Resolve ==
    /\ pc = "Resolving"
    /\ found' = search_company_data(df, company_name)
    /\ IF found'.raised
       THEN pc' = "Aborted" /\ UNCHANGED company_data
       ELSE pc' = "Researching" /\ company_data' = found'
    /\ UNCHANGED <<prep_prompt, convVars, df, company_name, s1_outcome, s2_outcome,
                   gpt4o_prep_sheet, enhanced_prep_sheet, progress, s1_calls,
                   s2_calls, display>>

\* lines 338-341: progress 0.1, then the call of stage 1, which builds its
\* prompt (line 205) before it calls the research service
Stage1 ==
    /\ pc = "Researching"
    /\ ~gpt4o_prep_sheet.done
    /\ \E o \in S1Outcomes :
        /\ s1_outcome' = o
        /\ gpt4o_prep_sheet' = stage1_gpt4o_prep_sheet(o)
        /\ progress' = progress \o <<1>> \o Stage1Progress(o)
    /\ prep_prompt' = Returned(create_comprehensive_prep_prompt(company_data.v))
    /\ s1_calls' = s1_calls + 1
    /\ UNCHANGED <<convVars, dirVars, pc, company_data, s2_outcome,
                   enhanced_prep_sheet, s2_calls, display>>

\* lines 343-344 and the except clause of lines 354-357
CheckStage1 ==
    /\ pc = "Researching"
    /\ gpt4o_prep_sheet.done
    /\ LET chk == IsStage1Failure(gpt4o_prep_sheet.v)
       IN  IF chk.raised
           THEN /\ pc' = "Failed"
                /\ enhanced_prep_sheet' = Ret(PyText(ProcessErrorText(chk.msg)))
           ELSE IF chk.v
           THEN /\ pc' = "Failed"
                /\ enhanced_prep_sheet' = Ret(gpt4o_prep_sheet.v)
           ELSE /\ pc' = "Enhancing"
                /\ UNCHANGED enhanced_prep_sheet
    /\ UNCHANGED <<prep_prompt, convVars, dirVars, company_data, s1_outcome, s2_outcome,
                   gpt4o_prep_sheet, progress, s1_calls, s2_calls, display>>

\* lines 347-352 and the except clause of lines 354-357
Stage2 ==
    /\ pc = "Enhancing"
    /\ \E o \in S2Outcomes :
        LET r == stage2_o1_enhancement(gpt4o_prep_sheet.v.t, o)
        IN  /\ s2_outcome' = o
            /\ progress' = progress \o Stage2Progress(o)
            /\ IF r.raised
               THEN /\ pc' = "Failed"
                    /\ enhanced_prep_sheet' = Ret(PyText(ProcessErrorText(r.msg)))
               ELSE /\ pc' = "Done"
                    /\ enhanced_prep_sheet' = r
    /\ s2_calls' = s2_calls + 1
    /\ UNCHANGED <<prep_prompt, convVars, dirVars, company_data, s1_outcome,
                   gpt4o_prep_sheet, s1_calls, display>>

\* main, lines 463-482: the result is shown as a report or as a failure
Render ==
    /\ pc \in {"Done", "Failed"}
    /\ display = "none"
    /\ display' = IF IsSuccessDocument(enhanced_prep_sheet.v)
                  THEN "success" ELSE "error"
    /\ UNCHANGED <<prep_prompt, convVars, dirVars, pc, company_data, s1_outcome, s2_outcome,
                   gpt4o_prep_sheet, enhanced_prep_sheet, progress, s1_calls,
                   s2_calls>>

Next == Submit \/ Resolve \/ Stage1 \/ CheckStage1 \/ Stage2 \/ Render
Spec == InitRun /\ [][Next]_vars

(***************************************************************************)
(* Properties                                                              *)
(***************************************************************************)
\* the research stage failed in this run
S1Failed == s1_outcome.done /\ Stage1Raised(s1_outcome)
\* the enhancement stage failed in this run
S2Failed == s2_outcome.done /\ Stage2Try(s2_outcome).raised
\* the orchestrator has returned
OrchestratorReturned == pc \in {"Done", "Failed"}

\* C1: when the research stage fails, the enhancement stage is never invoked
\* and the orchestrator's result contains the stage-1 failure marker.
C1_Stage1FailureShortCircuits ==
    S1Failed =>
        /\ s2_calls = 0
        /\ pc # "Enhancing"
        /\ OrchestratorReturned =>
              /\ ~enhanced_prep_sheet.v.none
              /\ Contains(enhanced_prep_sheet.v.t, S1FailMarker)

C1_Witness ==
    /\ pc = "Failed"
    /\ S1Failed
    /\ s2_calls = 0
    /\ StartsWith(enhanced_prep_sheet.v.t, S1FailMarker)

\* C2: when the research stage succeeded and the enhancement call then fails,
\* the orchestrator's result contains the whole stage-1 text as a contiguous
\* substring.
C2_EnhancementFailureKeepsResearch ==
    (S2Failed /\ ~S1Failed) =>
        /\ OrchestratorReturned
        /\ ~enhanced_prep_sheet.v.none
        /\ Contains(enhanced_prep_sheet.v.t, gpt4o_prep_sheet.v.t)

C2_Witness ==
    /\ S2Failed
    /\ ~S1Failed
    /\ OrchestratorReturned
    /\ Len(gpt4o_prep_sheet.v.t) >= 2

\* C3 (as claimed): when the enhancement stage fails the run ends with the
\* stage-1 report first and a failure annotation appended after it, and that
\* outcome is shown as a success.
C3_ReportFirstShownAsSuccess ==
    S2Failed =>
        /\ pc = "Done"
        /\ StartsWith(enhanced_prep_sheet.v.t, gpt4o_prep_sheet.v.t)
        /\ Len(enhanced_prep_sheet.v.t) > Len(gpt4o_prep_sheet.v.t)
        /\ display # "none" => display = "success"

\* C3 (amended): when the enhancement stage fails the orchestrator still
\* returns a document (it ends in Done): the failure annotation comes first
\* and the stage-1 report after it, as the end of the document; main shows
\* that document as a failed run.
C3_AnnotationFirstShownAsError ==
    S2Failed =>
        LET doc   == enhanced_prep_sheet.v.t
            sheet == gpt4o_prep_sheet.v.t
        IN  /\ pc = "Done"
            /\ ~enhanced_prep_sheet.v.none
            /\ StartsWith(doc, S2FailMarker)
            /\ Len(doc) >= Len(S2FailMarker) + Len(OriginalHeader) + Len(sheet)
            /\ SubSeq(doc, Len(doc) - Len(sheet) + 1, Len(doc)) = sheet
            /\ SubSeq(doc, Len(doc) - Len(sheet) - Len(OriginalHeader) + 1,
                      Len(doc) - Len(sheet)) = OriginalHeader
            /\ display # "none" => display = "error"

C3_Witness ==
    /\ S2Failed
    /\ pc = "Done"
    /\ display = "error"
    /\ gpt4o_prep_sheet.v.t = <<"w", "w">>

\* the transitions of the run
Transitions ==
    { <<"Idle", "Resolving">>, <<"Resolving", "Researching">>,
      <<"Resolving", "Aborted">>, <<"Researching", "Enhancing">>,
      <<"Researching", "Failed">>, <<"Enhancing", "Done">> }

\* C4: the run moves Idle -> Resolving -> Researching -> Enhancing -> Done;
\* Failed is entered only from Researching, and from Enhancing the run can
\* only go to Done, whether the enhancement call succeeds or fails.
C4_StateMachine ==
    [][ /\ (pc' = "Failed" /\ pc # "Failed") => pc = "Researching"
        /\ pc = "Enhancing" => pc' \in {"Enhancing", "Done"}
        /\ pc' # pc => <<pc, pc'>> \in Transitions
        /\ (s2_outcome'.done /\ ~s2_outcome.done) => pc' = "Done" ]_vars

C4_Witness ==
    /\ pc = "Done"
    /\ S2Failed

\* C5: the progress values emitted so far never decrease and lie in [0, 1]
\* (0..10 tenths); whether the enhancement stage is invoked is decided by the
\* value stage 1 returned alone.
C5_ProgressMonotone ==
    /\ \A i \in 1..Len(progress) : progress[i] \in 0..10
    /\ \A i \in 1..(Len(progress) - 1) : progress[i] <= progress[i + 1]
    /\ (gpt4o_prep_sheet.done /\ pc # "Researching") =>
          ( (s2_calls = 1 \/ pc = "Enhancing")
            <=> ( /\ ~gpt4o_prep_sheet.v.none
                  /\ ~StartsWith(gpt4o_prep_sheet.v.t, S1FailMarker) ) )

C5_Witness ==
    /\ pc = "Done"
    /\ S2Failed
    /\ progress = <<1, 3, 6, 8, 10, 10>>

\* C6: whatever the two services do, the orchestrator returns a string.
C6_AlwaysReturnsString ==
    OrchestratorReturned =>
        /\ ~enhanced_prep_sheet.raised
        /\ ~enhanced_prep_sheet.v.none

\* rows whose name contains the submitted name as a literal substring,
\* case-insensitively
LiteralMask(data, name) ==
    {i \in 1..Len(data) :
        /\ ~data[i].name.isna
        /\ Contains(Lower(data[i].name.s), Lower(name))}

\* the figures of a row, normalized
RowFigures(row) ==
    <<safe_convert_to_int(row.visits, 0), safe_convert_to_int(row.downloads, 0)>>

\* C7: a name equal (case-insensitively) to the name of some row resolves to
\* 'exact' with the normalized figures of the first such row, also when an
\* earlier row contains the name as a substring.
C7_ExactMatch ==
    (found.done /\ ExactMask(df, company_name) # {}) =>
        LET row == df[FirstRow(ExactMask(df, company_name))]
        IN  /\ ~found.raised
            /\ found.v.match_type = "exact"
            /\ found.v.company_name = row.name.s
            /\ found.v.monthly_visits = RowFigures(row)[1].v
            /\ found.v.app_downloads = RowFigures(row)[2].v

\* C8: a name that is a literal substring of the name of exactly one row and
\* equal to no name resolves to 'partial' and the record of that row (stated
\* for rows whose figures convert, so that a violation is the lookup's own).
C8_PartialMatch ==
    ( /\ found.done
      /\ ExactMask(df, company_name) = {}
      /\ Cardinality(LiteralMask(df, company_name)) = 1
      /\ \A i \in 1..Len(df) :
            ~RowFigures(df[i])[1].raised /\ ~RowFigures(df[i])[2].raised ) =>
        LET row == df[FirstRow(LiteralMask(df, company_name))]
        IN  /\ ~found.raised
            /\ found.v.match_type = "partial"
            /\ found.v.company_name = row.name.s
            /\ found.v.monthly_visits = RowFigures(row)[1].v
            /\ found.v.app_downloads = RowFigures(row)[2].v

\* C9: the lookup never fails; it returns a record whose match_type is exact,
\* partial or none, and for a name no row matches the record carries the raw
\* input and zero figures.
C9_SearchNeverFails ==
    found.done =>
        /\ ~found.raised
        /\ found.v.match_type \in {"exact", "partial", "none"}
        /\ LiteralMask(df, company_name) = {} =>
              /\ found.v.company_name = company_name
              /\ found.v.monthly_visits = 0
              /\ found.v.app_downloads = 0

\* C10: safe_convert_to_int never raises; absent, NaN, empty and 'nan' values
\* and values that do not parse yield 0.
C10_ConvertNeverRaises ==
    converted.done =>
        /\ ~converted.raised
        /\ ( \/ value.k \in {"none", "nan"}
             \/ (value.k = "str" /\ Strip(RemoveCommas(value.s)) = <<>>)
             \/ (value.k = "str" /\ ParseFloat(RemoveCommas(value.s)).k = "err") )
           => converted.v = 0

\* the figure f is given in the prompt p on the line with the label
ShowsFigure(p, label, f) == Contains(p, label \o FormatThousands(f))

\* C11 (as claimed): for a matched record the prompt gives both figures,
\* whatever their value, 0 included; for an unmatched record it carries the
\* note that no internal data is available and the figures must be researched.
C11_FiguresAlwaysShown ==
    prep_prompt.done =>
        LET cd == company_data.v
            p  == prep_prompt.v
        IN  /\ cd.match_type # "none" =>
                  /\ ShowsFigure(p, VisitsLabel, cd.monthly_visits)
                  /\ ShowsFigure(p, DownloadsLabel, cd.app_downloads)
            /\ cd.match_type = "none" => Contains(p, NoInternalDataNote)

\* C11 (amended): for a matched record the prompt gives each figure that is
\* greater than 0, with thousands separators, under the verified-data
\* heading, and gives "Data not available" in place of a figure that is 0 or
\* less; for an unmatched record it carries the note that no internal data is
\* available and gives no figure line at all.
C11_PositiveFiguresShown ==
    prep_prompt.done =>
        LET cd == company_data.v
            p  == prep_prompt.v
            Shown(label, f) ==
                IF f > 0 THEN ShowsFigure(p, label, f)
                ELSE /\ Contains(p, label \o <<"Data not available">>)
                     /\ ~ShowsFigure(p, label, f)
        IN  /\ cd.match_type # "none" =>
                  /\ Contains(p, <<"**Verified Internal Data (">>)
                  /\ Shown(VisitsLabel, cd.monthly_visits)
                  /\ Shown(DownloadsLabel, cd.app_downloads)
                  /\ ~Contains(p, NoInternalDataNote)
            /\ cd.match_type = "none" =>
                  /\ Contains(p, NoInternalDataNote)
                  /\ ~Contains(p, VisitsLabel)
                  /\ ~Contains(p, DownloadsLabel)

C11_Witness ==
    /\ prep_prompt.done
    /\ company_data.v.match_type = "partial"
    /\ company_data.v.monthly_visits = 1234567
    /\ company_data.v.app_downloads = 0
    /\ Contains(prep_prompt.v,
                VisitsLabel \o <<"1", ",", "2", "3", "4", ",", "5", "6", "7">>)

\* the research call returned normally and a report text was read from it
S1ReturnedText ==
    /\ s1_outcome.done
    /\ s1_outcome.kind = "response"
    /\ ~ExtractPrepSheet(s1_outcome).raised
    /\ ~ExtractPrepSheet(s1_outcome).v.none

\* C12: stage 1 is treated as failed exactly when the research call raised:
\* a call that returns normally, whatever report text it returns, is followed
\* by the enhancement stage with that text, and only a raising call
\* short-circuits.
C12_FailedIffCallRaised ==
    (gpt4o_prep_sheet.done /\ pc # "Researching") =>
        /\ S1ReturnedText =>
              /\ pc \in {"Enhancing", "Done"}
              /\ gpt4o_prep_sheet.v = ExtractPrepSheet(s1_outcome).v
        /\ s1_outcome.kind = "raise" => (pc = "Failed" /\ s2_calls = 0)

====
